---- MODULE Spec2Model ----
(***************************************************************************)
(* The real-time sensor-reading distribution core of the IoT dashboard     *)
(* backend: IotService (the sensor and reading collections and the         *)
(* queries over them) and WebsocketGateway (connected clients, rooms, the  *)
(* 5 s broadcast timer, the initial send on connect and the manual         *)
(* broadcasts), together with the users and authentication operations,     *)
(* the data simulator, and the browser's WebSocketProvider and dashboard   *)
(* chart.                                                                  *)
(*                                                                         *)
(* An optional value (a document or null, a threshold or undefined) is a   *)
(* sequence of length 0 or 1.  Every await of the code is a separate step: *)
(* what runs between two awaits is one action.                             *)
(***************************************************************************)
EXTENDS Integers, Sequences, FiniteSets, TLC

\* ------------------------------------------------------------- bounds
MaxTime == 2
MaxData == 2
MaxInFlight == 2
MaxSensors == 3
MaxTimers == 4
MaxUsers == 3
MaxStats == 4

\* ------------------------------------------------------------- universes
SensorIds == {"TEMP_001", "TEMP_002"}
\* The ids readings arrive for: the simulator also feeds PRESSURE_001, which
\* is not among the first default sensors.
AllSensorIds == SensorIds \cup {"PRESSURE_001"}
Clients == {"c1", "c2"}
Rooms == SensorIds
Values == {0, 1, 2, 3}
Thresholds == {[min |-> 1, max |-> 2], [min |-> 3, max |-> 0]}
Emails == {"admin@example.com", "new@example.com"}
Passwords == {"admin123", "pw2"}
UserIds == {1, 2}
StatValues == {-1, 0, 1}

VARIABLES
    sensors,          \* the sensors collection, in insertion order
    sensorData,       \* the sensordatas collection, in insertion order
    now,              \* the wall clock read by new Date()
    dbUp,             \* whether a query reaches the database
    sockets,          \* socket.io: the sockets open in the namespace
    rooms,            \* socket.io: the rooms each socket has joined
    broken,           \* sockets whose transport fails every write
    connectedClients, \* WebsocketGateway.connectedClients (its keys)
    timerArmed,       \* WebsocketGateway.broadcastInterval is armed
    calls,            \* getLatestReadings invocations in flight
    stopRequested,    \* a stop of the broadcast scheduler was requested
    wire,             \* the messages emitted by the latest step
    ret,              \* the result of the operation the latest step ended
    toggles,          \* toggleSensorStatus invocations in flight
    simulationIntervals, \* DataSimulationService.simulationIntervals
    users,            \* the users collection, in insertion order
    authCalls,        \* login and register requests in flight
    provider,         \* the browser's WebSocketProvider: its socket, its
                      \* reconnect timeouts and its latestReadings state
    historicalData    \* the data state of the dashboard's useSensorData

vars == <<sensors, sensorData, now, dbUp, sockets, rooms, broken,
          connectedClients, timerArmed, calls, stopRequested, wire, ret,
          toggles, simulationIntervals, users, authCalls,
          provider, historicalData>>

storeVars == <<sensors, sensorData, now, dbUp>>
socketVars == <<sockets, rooms, broken, connectedClients>>
gatewayVars == <<socketVars, timerArmed, calls, stopRequested>>
userVars == <<users, authCalls>>
frontVars == <<provider, historicalData>>

\* ------------------------------------------------------------- helpers
Remove(s, k) == SubSeq(s, 1, k - 1) \o SubSeq(s, k + 1, Len(s))

Range(s) == {s[i] : i \in 1..Len(s)}

NoRet == [op |-> "none"]

\* ------------------------------------------------------------- IotService
\* The default sensors inserted into an empty collection (the first two).
DefaultSensors ==
    << [sensorId |-> "TEMP_001", isActive |-> TRUE, alertThreshold |-> <<>>],
       [sensorId |-> "TEMP_002", isActive |-> TRUE, alertThreshold |-> <<>>] >>

\* sensorModel.find({ isActive: true })
GetAllSensors(coll) == SelectSeq(coll, LAMBDA d : d.isActive)

\* The stored readings of one sensor.
DataOf(coll, sensorId) == {d \in Range(coll) : d.sensorId = sensorId}

\* The same query sorted by ascending timestamp.
FindOneOldest(coll, sensorId) ==
    IF DataOf(coll, sensorId) = {} THEN {<<>>}
    ELSE {<<d>> : d \in {e \in DataOf(coll, sensorId) :
                    \A f \in DataOf(coll, sensorId) : e.timestamp <= f.timestamp}}

\* sensorDataModel.findOne({ sensorId }).sort({ timestamp: -1 }): the possible
\* results, null when the sensor has no reading; equal timestamps tie.
FindOneLatest(coll, sensorId) ==
    IF DataOf(coll, sensorId) = {} THEN {<<>>}
    ELSE {<<d>> : d \in {e \in DataOf(coll, sensorId) :
                    \A f \in DataOf(coll, sensorId) : e.timestamp >= f.timestamp}}

\* The comparison chain with the minimum tested first.
AlertTypeLowFirst(threshold, data) ==
    IF threshold = <<>> THEN "none"
    ELSE IF data = <<>> THEN "none"
    ELSE IF data[1].value < threshold[1].min THEN "low"
    ELSE IF data[1].value > threshold[1].max THEN "high"
    ELSE "none"

\* The comparison chain of getSensorAlerts for one sensor and its latest
\* reading: "high", "low", or "none" when nothing is pushed.
AlertType(threshold, data) ==
    IF threshold = <<>> THEN "none"
    ELSE IF data = <<>> THEN "none"
    ELSE IF data[1].value > threshold[1].max THEN "high"
    ELSE IF data[1].value < threshold[1].min THEN "low"
    ELSE "none"

\* ------------------------------------------------------------- statistics
RECURSIVE Sum(_)
Sum(values) == IF values = <<>> THEN 0 ELSE Head(values) + Sum(Tail(values))

\* find({ sensorId, timestamp: { $gte: startDate } }).sort({ timestamp: 1 }):
\* the possible results, readings of equal timestamp in either order.
FindSince(coll, sensorId, startDate) ==
    LET idx == {i \in 1..Len(coll) : /\ coll[i].sensorId = sensorId
                                     /\ coll[i].timestamp >= startDate}
        n == Cardinality(idx)
        orders == {g \in [1..n -> idx] :
                     /\ \A a, b \in 1..n : a # b => g[a] # g[b]
                     /\ \A a \in 1..(n - 1) :
                           coll[g[a]].timestamp <= coll[g[a + 1]].timestamp}
    IN {[k \in 1..n |-> coll[g[k]]] : g \in orders}

\* data.slice(0, quarterSize) and data.slice(-quarterSize); slice(-0) is the
\* whole array.
FirstQuarter(values) == SubSeq(values, 1, Len(values) \div 4)

LastQuarter(values) ==
    IF Len(values) \div 4 = 0 THEN values
    ELSE SubSeq(values, Len(values) - (Len(values) \div 4) + 1, Len(values))

\* The trend of getSensorStats over a non-empty window.  With n values of
\* sum S and quarters of q values of sums F and L, difference > threshold,
\* (L - F) / q > 0.05 * S / n, is (L - F) * 20 * n > S * q.  (The values of
\* the model never make the two sides equal unless both are 0, so that the
\* rounding of 0.05 plays no part.)
Trend(values) ==
    LET n == Len(values)
        q == Len(FirstQuarter(values))
        difference == Sum(LastQuarter(values)) - Sum(FirstQuarter(values))
    IN IF q > 0 /\ Len(LastQuarter(values)) > 0
       THEN IF difference * 20 * n > Sum(values) * q THEN "up"
            ELSE IF difference * 20 * n < (0 - Sum(values)) * q THEN "down"
            ELSE "stable"
       ELSE "stable"

\* ------------------------------------------------------------- users
\* A stored password: the plain text (a seeded or admin-created user), or a
\* hash of it with the version prefix "$2b$" or "$2a$".
Plain(p) == [kind |-> "plain", of |-> p]

\* bcrypt.hash of the auth controller (the bcrypt package): prefix "$2b$".
BcryptHash(p) == [kind |-> "2b", of |-> p]

\* bcryptjs.hash of the users service: the prefix its version writes, "$2a$"
\* (bcryptjs 2) or "$2b$" (bcryptjs 3); the sources do not pin the version.
BcryptjsHashes(p) == {[kind |-> "2a", of |-> p], [kind |-> "2b", of |-> p]}

\* bcryptjs.compare(given, stored): false for a stored text that is no hash.
BcryptjsCompare(given, stored) ==
    stored.kind \in {"2a", "2b"} /\ given.kind = "plain" /\ given.of = stored.of

\* The password check of login: bcrypt.compare when the stored text starts
\* with "$2b$", equality of the texts otherwise.
IsPasswordValid(given, stored) ==
    IF stored.kind = "2b"
    THEN given.kind = "plain" /\ given.of = stored.of
    ELSE given = stored

\* A lookup by email that ignores isActive.
FindByEmailAnyStatus(coll, email) ==
    LET hits == {i \in 1..Len(coll) : coll[i].email = email}
    IN IF hits = {} THEN 0 ELSE CHOOSE i \in hits : \A j \in hits : i <= j

\* userModel.findOne({ email, isActive: true }): the id (position) of the
\* first match, 0 for null.
FindByEmail(coll, email) ==
    LET hits == {i \in 1..Len(coll) : coll[i].email = email /\ coll[i].isActive}
    IN IF hits = {} THEN 0 ELSE CHOOSE i \in hits : \A j \in hits : i <= j

\* No unique index on email.
EmailTakenNever(coll, email) == FALSE

\* The unique index on email: an insert of an email any document (active or
\* not) already has is rejected.
EmailTaken(coll, email) == \E i \in 1..Len(coll) : coll[i].email = email

\* A user document as returned in full, and with .select("-password").
FullUser(coll, id) ==
    [id |-> id, email |-> coll[id].email, password |-> coll[id].password,
     isActive |-> coll[id].isActive, lastLogin |-> coll[id].lastLogin,
     name |-> coll[id].name, role |-> coll[id].role,
     permissions |-> coll[id].permissions]

SelectWithoutPassword(coll, id) ==
    [id |-> id, email |-> coll[id].email,
     isActive |-> coll[id].isActive, lastLogin |-> coll[id].lastLogin,
     name |-> coll[id].name, role |-> coll[id].role,
     permissions |-> coll[id].permissions]

\* The user object login and register build for their response.
ResponseUser(coll, id) == [id |-> id, email |-> coll[id].email]

\* The users the database is seeded with.
SeededUsers ==
    << [email |-> "admin@example.com", password |-> Plain("admin123"),
        isActive |-> TRUE, lastLogin |-> <<>>,
        name |-> "Admin User", role |-> "admin", permissions |-> <<>>] >>

\* The update data a caller of updateProfile passes: profile fields alone,
\* and profile fields together with the fields a profile update must not
\* touch.
UpdateDatas ==
    { [name |-> "Renamed"],
      [name |-> "Renamed", role |-> "manager"],
      [password |-> Plain("pw2"), permissions |-> <<"all">>],
      [name |-> "Renamed", password |-> Plain("pw2"), role |-> "manager",
       permissions |-> <<"all">>] }

\* Update data passed on as it is.
ProfileDataUnfiltered(updateData) == updateData

\* const { password, role, permissions, ...profileData } = updateData
ProfileData(updateData) ==
    [f \in DOMAIN updateData \ {"password", "role", "permissions"} |->
        updateData[f]]

\* findByIdAndUpdate(id, update): the document with the update's fields set.
Updated(doc, update) ==
    [f \in DOMAIN doc |-> IF f \in DOMAIN update THEN update[f] ELSE doc[f]]

\* ------------------------------------------------------------- socket.io
\* A transport that keeps a packet for a closed socket and hands it over.
DeliveredToClosed(targets) == targets \ broken

\* The sockets a packet written to `targets` reaches: a closed socket and a
\* socket whose transport fails drop the packet; the write never throws.
Delivered(targets) == (targets \cap sockets) \ broken

Msg(event, sensorId, value, timestamp, snapshot, targets) ==
    [event |-> event, sensorId |-> sensorId, value |-> value,
     timestamp |-> timestamp, snapshot |-> snapshot,
     target |-> targets, to |-> Delivered(targets)]

\* this.server.emit(event, ...): to every socket of the namespace.
ServerEmit(event, sensorId, value, timestamp, snapshot) ==
    Msg(event, sensorId, value, timestamp, snapshot, sockets)

\* An emit that also reaches every other socket of the namespace.
ClientEmitToAll(client, event, sensorId, value, timestamp, snapshot) ==
    Msg(event, sensorId, value, timestamp, snapshot, sockets \cup {client})

\* client.emit(event, ...): to that socket alone.
ClientEmit(client, event, sensorId, value, timestamp, snapshot) ==
    Msg(event, sensorId, value, timestamp, snapshot, {client})

\* The sensorUpdate emits of the forEach over a snapshot, in its order.
RECURSIVE SensorUpdates(_)
SensorUpdates(readings) ==
    IF readings = <<>> THEN <<>>
    ELSE LET r == Head(readings) IN
         (IF r.data # <<>>
          THEN <<ServerEmit("sensorUpdate", r.sensor.sensorId,
                            r.data[1].value, r.data[1].timestamp, <<>>)>>
          ELSE <<>>) \o SensorUpdates(Tail(readings))

\* ------------------------------------------------------------- frontend
\* The limit the dashboard passes to useSensorData and to slice(-50).
ChartLimit == 50

\* The sensor the dashboard selects: the first of the sensors it fetched.
SelectedSensor == "TEMP_001"

\* The WebSocketProvider before its effect has created a socket.  socket is
\* "none", "connecting", "connected", "disconnected" (closed by the server
\* or the transport) or "closed" (closed by socket.disconnect()); ref is
\* reconnectTimeoutRef.current, timeouts the setTimeout timers still armed,
\* cleaned whether the cleanup of the effect has run.
NewProvider ==
    [socket |-> "none", cleaned |-> FALSE, ref |-> <<>>, timeouts |-> {},
     nextTimeout |-> 1, latestReadings |-> <<>>]

\* find({ sensorId }).sort({ timestamp: -1 }): the stored readings of the
\* sensor, newest first; readings of equal timestamp come in either order.
SortedNewestFirst(coll, sensorId) ==
    LET idx == {i \in 1..Len(coll) : coll[i].sensorId = sensorId}
        n == Cardinality(idx)
        orders == {g \in [1..n -> idx] :
                     /\ \A a, b \in 1..n : a # b => g[a] # g[b]
                     /\ \A a \in 1..(n - 1) :
                           coll[g[a]].timestamp >= coll[g[a + 1]].timestamp}
    IN {[k \in 1..n |-> coll[g[k]]] : g \in orders}

\* .limit(limit)
Limit(s, limit) == SubSeq(s, 1, IF Len(s) < limit THEN Len(s) ELSE limit)

\* IotService.getSensorData: the possible results.
GetSensorData(coll, sensorId, limit) ==
    {Limit(q, limit) : q \in SortedNewestFirst(coll, sensorId)}

\* Array.prototype.slice(-n)
SliceLast(s, n) == SubSeq(s, IF Len(s) > n THEN Len(s) - n + 1 ELSE 1, Len(s))

\* latestReadings.find(...)?.data for the selected sensor.
LatestReadingData(readings) ==
    LET found == SelectSeq(readings,
                           LAMBDA r : r.sensor.sensorId = SelectedSensor)
    IN IF found = <<>> THEN <<>> ELSE found[1].data

\* historicalData[historicalData.length - 1]
MostRecentHistorical(historical) == historical[Len(historical)]

\* The chartData memo of the dashboard page.
ChartData(historical, readings) ==
    IF historical = <<>> THEN historical
    ELSE LET data == LatestReadingData(readings) IN
         IF data = <<>> THEN historical
         ELSE IF data[1].timestamp > MostRecentHistorical(historical).timestamp
         THEN SliceLast(Append(historical,
                               [sensorId |-> SelectedSensor,
                                value |-> data[1].value,
                                timestamp |-> data[1].timestamp]),
                        ChartLimit)
         ELSE historical

\* ------------------------------------------------------------- initial state
Init ==
    /\ sensors = DefaultSensors
    /\ sensorData = <<>>
    /\ now = 0
    /\ dbUp = TRUE
    /\ sockets = {}
    /\ rooms = [c \in Clients |-> {}]
    /\ broken = {}
    /\ connectedClients = {}
    /\ timerArmed = FALSE
    /\ calls = <<>>
    /\ stopRequested = FALSE
    /\ wire = <<>>
    /\ ret = NoRet
    /\ toggles = <<>>
    /\ simulationIntervals = <<>>
    /\ users = SeededUsers
    /\ authCalls = <<>>
    /\ provider = NewProvider
    /\ historicalData = <<>>

\* A step that emits nothing and ends no observed operation.
Quiet == wire' = <<>> /\ ret' = NoRet

\* ------------------------------------------------------------- environment
\* Time passes between two reads of new Date().
Advance ==
    /\ now < MaxTime
    /\ now' = now + 1
    /\ Quiet
    /\ UNCHANGED <<sensors, sensorData, dbUp, socketVars, timerArmed, calls,
                   stopRequested>>
    /\ UNCHANGED <<toggles, simulationIntervals, userVars>>
    /\ UNCHANGED frontVars

\* The database becomes unreachable: every query issued meanwhile rejects.
StoreDown ==
    /\ dbUp
    /\ dbUp' = FALSE
    /\ Quiet
    /\ UNCHANGED <<sensors, sensorData, now, socketVars, timerArmed, calls,
                   stopRequested>>
    /\ UNCHANGED <<toggles, simulationIntervals, userVars>>
    /\ UNCHANGED frontVars

StoreUp ==
    /\ ~dbUp
    /\ dbUp' = TRUE
    /\ Quiet
    /\ UNCHANGED <<sensors, sensorData, now, socketVars, timerArmed, calls,
                   stopRequested>>
    /\ UNCHANGED <<toggles, simulationIntervals, userVars>>
    /\ UNCHANGED frontVars

\* A socket's transport starts failing every write, before the server has
\* noticed the disconnect.
TransportFail(c) ==
    /\ c \in sockets \ broken
    /\ broken' = broken \cup {c}
    /\ Quiet
    /\ UNCHANGED <<storeVars, sockets, rooms, connectedClients, timerArmed,
                   calls, stopRequested>>
    /\ UNCHANGED <<toggles, simulationIntervals, userVars>>
    /\ UNCHANGED frontVars

\* ------------------------------------------------------------- IotService
addSensorData(sensorId, value) ==
    /\ dbUp
    /\ Len(sensorData) < MaxData
    /\ sensorData' = Append(sensorData,
           [sensorId |-> sensorId, value |-> value, timestamp |-> now])
    /\ wire' = <<>>
    /\ ret' = [op |-> "addSensorData", outcome |-> "ok", sensorId |-> sensorId]
    /\ UNCHANGED <<sensors, now, dbUp, socketVars, timerArmed, calls,
                   stopRequested>>
    /\ UNCHANGED <<toggles, simulationIntervals, userVars>>
    /\ UNCHANGED frontVars

\* findOneAndUpdate({ sensorId }, update): the first matching document.
UpdateFirst(coll, sensorId, field, value) ==
    IF \E i \in 1..Len(coll) : coll[i].sensorId = sensorId
    THEN LET i == CHOOSE j \in 1..Len(coll) :
                    /\ coll[j].sensorId = sensorId
                    /\ \A k \in 1..(j - 1) : coll[k].sensorId # sensorId
         IN [coll EXCEPT ![i] = [coll[i] EXCEPT ![field] = value]]
    ELSE coll

updateSensorConfig(sensorId, threshold) ==
    /\ dbUp
    /\ sensors' = UpdateFirst(sensors, sensorId, "alertThreshold", <<threshold>>)
    /\ Quiet
    /\ UNCHANGED <<sensorData, now, dbUp, socketVars, timerArmed, calls,
                   stopRequested>>
    /\ UNCHANGED <<toggles, simulationIntervals, userVars>>
    /\ UNCHANGED frontVars

\* A deactivation that also removes the sensor's readings.
deleteSensorCascade(sensorId) ==
    /\ dbUp
    /\ sensors' = UpdateFirst(sensors, sensorId, "isActive", FALSE)
    /\ sensorData' = SelectSeq(sensorData, LAMBDA d : d.sensorId # sensorId)
    /\ Quiet
    /\ UNCHANGED <<now, dbUp, socketVars, timerArmed, calls, stopRequested>>
    /\ UNCHANGED <<toggles, simulationIntervals, userVars>>
    /\ UNCHANGED frontVars

deleteSensor(sensorId) ==
    /\ dbUp
    /\ sensors' = UpdateFirst(sensors, sensorId, "isActive", FALSE)
    /\ Quiet
    /\ UNCHANGED <<sensorData, now, dbUp, socketVars, timerArmed, calls,
                   stopRequested>>
    /\ UNCHANGED <<toggles, simulationIntervals, userVars>>
    /\ UNCHANGED frontVars

\* sensorModel.save() of a new document under the unique index on sensorId
\* dropped: a duplicate is inserted.
createSensorNoIndex(sensorId) ==
    /\ Len(sensors) < MaxSensors
    /\ wire' = <<>>
    /\ IF ~dbUp
       THEN /\ ret' = [op |-> "createSensor", outcome |-> "rejected",
                       sensorId |-> sensorId]
            /\ UNCHANGED sensors
       ELSE /\ sensors' = Append(sensors, [sensorId |-> sensorId,
                                isActive |-> TRUE, alertThreshold |-> <<>>])
            /\ ret' = [op |-> "createSensor", outcome |-> "ok",
                       sensorId |-> sensorId]
    /\ UNCHANGED <<sensorData, now, dbUp, gatewayVars, toggles,
                   simulationIntervals, userVars>>
    /\ UNCHANGED frontVars

\* createSensor: save() inserts the document; the unique index on sensorId
\* rejects an id any document (active or not) already has.
createSensor(sensorId) ==
    /\ \/ Len(sensors) < MaxSensors
       \/ ~dbUp
       \/ \E i \in 1..Len(sensors) : sensors[i].sensorId = sensorId
    /\ wire' = <<>>
    /\ IF ~dbUp \/ \E i \in 1..Len(sensors) : sensors[i].sensorId = sensorId
       THEN /\ ret' = [op |-> "createSensor", outcome |-> "rejected",
                       sensorId |-> sensorId]
            /\ UNCHANGED sensors
       ELSE /\ sensors' = Append(sensors, [sensorId |-> sensorId,
                                isActive |-> TRUE, alertThreshold |-> <<>>])
            /\ ret' = [op |-> "createSensor", outcome |-> "ok",
                       sensorId |-> sensorId]
    /\ UNCHANGED <<sensorData, now, dbUp, gatewayVars, toggles,
                   simulationIntervals, userVars>>
    /\ UNCHANGED frontVars

\* toggleSensorStatus up to its second await: findOne({ sensorId }) has
\* resolved with a document, whose isActive the update will negate.
toggleSensorStatus(sensorId) ==
    /\ Len(toggles) < MaxInFlight
    /\ wire' = <<>>
    /\ LET found == SelectSeq(sensors, LAMBDA d : d.sensorId = sensorId) IN
       IF ~dbUp \/ found = <<>>
       THEN /\ ret' = [op |-> "toggleSensorStatus", outcome |-> "rejected",
                       sensorId |-> sensorId]
            /\ UNCHANGED toggles
       ELSE /\ toggles' = Append(toggles, [sensorId |-> sensorId,
                                           isActive |-> found[1].isActive])
            /\ ret' = NoRet
    /\ UNCHANGED <<storeVars, gatewayVars, simulationIntervals, userVars>>
    /\ UNCHANGED frontVars

\* The findOneAndUpdate of the k-th toggleSensorStatus in flight resolves.
toggleSensorStatusUpdate(k) ==
    /\ k \in 1..Len(toggles)
    /\ toggles' = Remove(toggles, k)
    /\ wire' = <<>>
    /\ LET t == toggles[k] IN
       IF ~dbUp
       THEN /\ ret' = [op |-> "toggleSensorStatus", outcome |-> "rejected",
                       sensorId |-> t.sensorId]
            /\ UNCHANGED sensors
       ELSE /\ sensors' = UpdateFirst(sensors, t.sensorId, "isActive",
                                      ~t.isActive)
            /\ ret' = [op |-> "toggleSensorStatus", outcome |-> "ok",
                       sensorId |-> t.sensorId]
    /\ UNCHANGED <<sensorData, now, dbUp, gatewayVars, simulationIntervals,
                   userVars>>
    /\ UNCHANGED frontVars

\* getSensorAlerts, its reads taken at one moment.  evals records, per
\* active sensor, the document and the reading the comparison was made on.
getSensorAlerts ==
    /\ wire' = <<>>
    /\ IF ~dbUp
       THEN ret' = [op |-> "getSensorAlerts", outcome |-> "rejected"]
       ELSE LET L == GetAllSensors(sensors) IN
            \E pick \in [1..Len(L) -> {<<>>} \cup {<<d>> : d \in Range(sensorData)}] :
              /\ \A i \in 1..Len(L) :
                    pick[i] \in (IF L[i].alertThreshold = <<>> THEN {<<>>}
                                 ELSE FindOneLatest(sensorData, L[i].sensorId))
              /\ LET evals == [i \in 1..Len(L) |->
                                 [sensor |-> L[i], data |-> pick[i],
                                  alertType |-> AlertType(L[i].alertThreshold, pick[i])]]
                     hits == SelectSeq(evals, LAMBDA e : e.alertType # "none")
                 IN ret' = [op |-> "getSensorAlerts", outcome |-> "ok",
                            evals |-> evals,
                            all |-> sensors,
                            alerts |-> [i \in 1..Len(hits) |->
                                [sensor |-> hits[i].sensor,
                                 latestValue |-> hits[i].data[1].value,
                                 alertType |-> hits[i].alertType,
                                 timestamp |-> hits[i].data[1].timestamp]]]
    /\ UNCHANGED <<storeVars, socketVars, timerArmed, calls, stopRequested>>
    /\ UNCHANGED <<toggles, simulationIntervals, userVars>>
    /\ UNCHANGED frontVars

\* getSensorStats with the window of the last `days` units of time.  values
\* holds the values of the window, oldest first.
getSensorStats(sensorId, days) ==
    /\ wire' = <<>>
    /\ IF ~dbUp
       THEN ret' = [op |-> "getSensorStats", outcome |-> "rejected"]
       ELSE \E data \in FindSince(sensorData, sensorId, now - days) :
              LET values == [i \in 1..Len(data) |-> data[i].value] IN
              ret' = [op |-> "getSensorStats", outcome |-> "ok",
                      values |-> values, count |-> Len(data),
                      trend |-> IF data = <<>> THEN "stable" ELSE Trend(values)]
    /\ UNCHANGED <<storeVars, gatewayVars, toggles, simulationIntervals,
                   userVars, frontVars>>

\* ------------------------------------------------------------- WebsocketGateway
\* A fresh invocation of getLatestReadings, before its first query resolves.
\* allAtRead and seen record what the store held when each query resolved,
\* foundClients whether a client was connected when the invocation started.
NewCall(kind, client) ==
    [kind |-> kind, client |-> client, pc |-> "sensors",
     sensors |-> <<>>, readings |-> <<>>,
     allAtRead |-> <<>>, seen |-> <<>>, afterStop |-> stopRequested,
     foundClients |-> (kind = "client" \/ connectedClients # {})]

CyclesInFlight == Len(SelectSeq(calls, LAMBDA c : c.kind = "cycle"))

afterInit ==
    /\ ~timerArmed
    /\ timerArmed' = TRUE
    /\ Quiet
    /\ UNCHANGED <<storeVars, socketVars, calls, stopRequested>>
    /\ UNCHANGED <<toggles, simulationIntervals, userVars>>
    /\ UNCHANGED frontVars

\* A socket id is not reused while an invocation still refers to it.
handleConnection(c) ==
    /\ c \notin sockets
    /\ \A k \in 1..Len(calls) : calls[k].client # c
    /\ sockets' = sockets \cup {c}
    /\ connectedClients' = connectedClients \cup {c}
    /\ calls' = Append(calls, NewCall("client", c))
    /\ Quiet
    /\ UNCHANGED <<storeVars, rooms, broken, timerArmed, stopRequested>>
    /\ UNCHANGED <<toggles, simulationIntervals, userVars>>
    /\ UNCHANGED frontVars

\* The result of a handleDisconnect; present tells whether the client was
\* among the connected clients when the handler ran.
Disconnected(c, outcome) ==
    [op |-> "handleDisconnect", client |-> c, outcome |-> outcome,
     present |-> c \in connectedClients]

\* A handler that throws for a client it does not know.
handleDisconnectStrict(c) ==
    /\ sockets' = sockets \ {c}
    /\ rooms' = [rooms EXCEPT ![c] = {}]
    /\ broken' = broken \ {c}
    /\ connectedClients' = connectedClients \ {c}
    /\ wire' = <<>>
    /\ ret' = Disconnected(c, IF c \in connectedClients THEN "ok" ELSE "error")
    /\ UNCHANGED <<storeVars, timerArmed, calls, stopRequested>>
    /\ UNCHANGED <<toggles, simulationIntervals, userVars>>
    /\ UNCHANGED frontVars

\* socket.io closes the socket (it leaves its rooms), then the handler runs:
\* Map.delete of a key that is absent is a no-op.
handleDisconnect(c) ==
    /\ sockets' = sockets \ {c}
    /\ rooms' = [rooms EXCEPT ![c] = {}]
    /\ broken' = broken \ {c}
    /\ connectedClients' = connectedClients \ {c}
    /\ wire' = <<>>
    /\ ret' = Disconnected(c, "ok")
    /\ UNCHANGED <<storeVars, timerArmed, calls, stopRequested>>
    /\ UNCHANGED <<toggles, simulationIntervals, userVars>>
    /\ UNCHANGED frontVars

handleJoinRoom(c, room) ==
    /\ c \in sockets
    /\ rooms' = [rooms EXCEPT ![c] = @ \cup {room}]
    /\ Quiet
    /\ UNCHANGED <<storeVars, sockets, broken, connectedClients, timerArmed,
                   calls, stopRequested>>
    /\ UNCHANGED <<toggles, simulationIntervals, userVars>>
    /\ UNCHANGED frontVars

handleLeaveRoom(c, room) ==
    /\ c \in sockets
    /\ rooms' = [rooms EXCEPT ![c] = @ \ {room}]
    /\ Quiet
    /\ UNCHANGED <<storeVars, sockets, broken, connectedClients, timerArmed,
                   calls, stopRequested>>
    /\ UNCHANGED <<toggles, simulationIntervals, userVars>>
    /\ UNCHANGED frontVars

\* The payload of sensorDataResponse is not modelled.
handleRequestSensorData(c, sensorId) ==
    /\ c \in sockets
    /\ wire' = <<ClientEmit(c, IF dbUp THEN "sensorDataResponse" ELSE "error",
                            sensorId, 0, 0, <<>>)>>
    /\ ret' = NoRet
    /\ UNCHANGED <<storeVars, socketVars, timerArmed, calls, stopRequested>>
    /\ UNCHANGED <<toggles, simulationIntervals, userVars>>
    /\ UNCHANGED frontVars

\* A callback that reads the store whether or not a client is connected.
TickUnconditional ==
    /\ timerArmed
    /\ CyclesInFlight < MaxInFlight
    /\ calls' = Append(calls, NewCall("cycle", "server"))
    /\ wire' = <<>>
    /\ ret' = [op |-> "tick", foundClients |-> connectedClients # {}]
    /\ UNCHANGED <<storeVars, socketVars, timerArmed, stopRequested>>
    /\ UNCHANGED <<toggles, simulationIntervals, userVars>>
    /\ UNCHANGED frontVars

\* The timer callback up to its first await.
Tick ==
    /\ timerArmed
    /\ IF connectedClients # {}
       THEN /\ CyclesInFlight < MaxInFlight
            /\ calls' = Append(calls, NewCall("cycle", "server"))
       ELSE UNCHANGED calls
    /\ wire' = <<>>
    /\ ret' = [op |-> "tick", foundClients |-> connectedClients # {}]
    /\ UNCHANGED <<storeVars, socketVars, timerArmed, stopRequested>>
    /\ UNCHANGED <<toggles, simulationIntervals, userVars>>
    /\ UNCHANGED frontVars

\* A caller that emits the sensor updates before the snapshot.
EmitsOfUpdatesFirst(call, readings) ==
    IF call.kind = "cycle"
    THEN SensorUpdates(readings)
         \o <<ServerEmit("latestReadings", "", 0, 0, readings)>>
    ELSE <<ClientEmit(call.client, "latestReadings", "", 0, 0, readings)>>

\* A broadcast that throws on the first socket whose transport fails.
EmitsOfThrowing(call, readings) ==
    IF call.kind = "cycle"
    THEN IF sockets \cap broken # {} THEN <<>>
         ELSE <<ServerEmit("latestReadings", "", 0, 0, readings)>>
              \o SensorUpdates(readings)
    ELSE <<ClientEmit(call.client, "latestReadings", "", 0, 0, readings)>>

\* What the caller of getLatestReadings emits once it has the snapshot.
EmitsOf(call, readings) ==
    IF call.kind = "cycle"
    THEN <<ServerEmit("latestReadings", "", 0, 0, readings)>>
         \o SensorUpdates(readings)
    ELSE <<ClientEmit(call.client, "latestReadings", "", 0, 0, readings)>>

Result(call, outcome) ==
    [op |-> "getLatestReadings", kind |-> call.kind, client |-> call.client,
     outcome |-> outcome, listRead |-> call.pc = "data",
     sensors |-> call.sensors, readings |-> call.readings,
     allAtRead |-> call.allAtRead, seen |-> call.seen,
     afterStop |-> call.afterStop, foundClients |-> call.foundClients]

\* A catch clause that clears the interval.
TimerAfterCatchCleared == FALSE

\* The broadcast timer after the catch clause of its callback has run.
TimerAfterCatch == timerArmed

\* getLatestReadings returns: the caller's continuation runs in the same turn.
Return(k, call) ==
    /\ calls' = Remove(calls, k)
    /\ wire' = EmitsOf(call, call.readings)
    /\ ret' = Result(call, "ok")
    /\ UNCHANGED timerArmed

\* A query of getLatestReadings rejects: the caller's catch logs the error.
Reject(k, call) ==
    /\ calls' = Remove(calls, k)
    /\ wire' = <<>>
    /\ ret' = Result(call, "rejected")
    /\ timerArmed' = IF call.kind = "cycle" THEN TimerAfterCatch ELSE timerArmed

\* The pending query of the k-th invocation in flight resolves.
Step(k) ==
    /\ k \in 1..Len(calls)
    /\ LET call == calls[k] IN
       IF ~dbUp THEN Reject(k, call)
       ELSE IF call.pc = "sensors"
       THEN LET L == GetAllSensors(sensors)
                read == [call EXCEPT !.pc = "data", !.sensors = L,
                                     !.allAtRead = sensors]
            IN IF L = <<>> THEN Return(k, read)
               ELSE /\ calls' = [calls EXCEPT ![k] = read]
                    /\ Quiet
                    /\ UNCHANGED timerArmed
       ELSE LET i == Len(call.readings) + 1
                sensor == call.sensors[i]
            IN \E latestData \in FindOneLatest(sensorData, sensor.sensorId) :
                 LET fetched == [call EXCEPT
                        !.readings = Append(@, [sensor |-> sensor,
                                                data |-> latestData]),
                        !.seen = Append(@, DataOf(sensorData, sensor.sensorId))]
                 IN IF i = Len(call.sensors) THEN Return(k, fetched)
                    ELSE /\ calls' = [calls EXCEPT ![k] = fetched]
                         /\ Quiet
                         /\ UNCHANGED timerArmed
    /\ UNCHANGED <<storeVars, socketVars, stopRequested>>
    /\ UNCHANGED <<toggles, simulationIntervals, userVars>>
    /\ UNCHANGED frontVars

\* broadcastSensorUpdate, its two reads taken at one moment.
\* getSensorById is findOne({ sensorId, isActive: true }).
broadcastSensorUpdate(sensorId) ==
    /\ ret' = NoRet
    /\ IF ~dbUp THEN wire' = <<>>
       ELSE \E latestData \in FindOneLatest(sensorData, sensorId) :
              LET found == SelectSeq(sensors,
                               LAMBDA d : d.sensorId = sensorId /\ d.isActive)
              IN wire' = IF found # <<>> /\ latestData # <<>>
                         THEN <<ServerEmit("sensorUpdate", found[1].sensorId,
                                           latestData[1].value,
                                           latestData[1].timestamp, <<>>)>>
                         ELSE <<>>
    /\ UNCHANGED <<storeVars, socketVars, timerArmed, calls, stopRequested>>
    /\ UNCHANGED <<toggles, simulationIntervals, userVars>>
    /\ UNCHANGED frontVars

sendAlert ==
    /\ wire' = <<ServerEmit("alert", "", 0, now, <<>>)>>
    /\ ret' = NoRet
    /\ UNCHANGED <<storeVars, socketVars, timerArmed, calls, stopRequested>>
    /\ UNCHANGED <<toggles, simulationIntervals, userVars>>
    /\ UNCHANGED frontVars

\* A request to stop the broadcast scheduler.  The gateway keeps the timer in
\* broadcastInterval and has no method that clears it: the request changes
\* nothing.
Stop ==
    /\ timerArmed
    /\ stopRequested' = TRUE
    /\ Quiet
    /\ UNCHANGED <<storeVars, socketVars, timerArmed, calls>>
    /\ UNCHANGED <<toggles, simulationIntervals, userVars>>
    /\ UNCHANGED frontVars

\* ------------------------------------------------------------- UsersService
\* The result of a users operation: body holds the user objects returned.
UserRet(op, outcome, id, body) ==
    [op |-> op, outcome |-> outcome, id |-> id, body |-> body]

\* UsersService.create (POST /users): the password is stored as given and
\* the saved document is returned.
create(email, password) ==
    /\ wire' = <<>>
    /\ IF ~dbUp \/ EmailTaken(users, email)
       THEN /\ ret' = UserRet("create", "rejected", 0, <<>>)
            /\ UNCHANGED users
       ELSE /\ Len(users) < MaxUsers
            /\ users' = Append(users, [email |-> email,
                                       password |-> Plain(password),
                                       isActive |-> TRUE, lastLogin |-> <<>>,
                                       name |-> "New User", role |-> "user",
                                       permissions |-> <<>>])
            /\ ret' = UserRet("create", "ok", Len(users'),
                              <<FullUser(users', Len(users'))>>)
    /\ UNCHANGED <<storeVars, gatewayVars, toggles, simulationIntervals,
                   authCalls>>
    /\ UNCHANGED frontVars

\* UsersService.findById (GET /users/profile and GET /users/:id).
findById(id) ==
    /\ wire' = <<>>
    /\ ret' = IF dbUp /\ id \in 1..Len(users)
              THEN UserRet("findById", "ok", id, <<FullUser(users, id)>>)
              ELSE UserRet("findById", "rejected", id, <<>>)
    /\ UNCHANGED <<storeVars, gatewayVars, toggles, simulationIntervals,
                   userVars>>
    /\ UNCHANGED frontVars

\* UsersService.findAll: the active users, without password.
findAll ==
    /\ wire' = <<>>
    /\ ret' = IF dbUp
              THEN LET ids == SelectSeq([i \in 1..Len(users) |-> i],
                                        LAMBDA i : users[i].isActive)
                   IN UserRet("findAll", "ok", 0,
                              [k \in 1..Len(ids) |->
                                  SelectWithoutPassword(users, ids[k])])
              ELSE UserRet("findAll", "rejected", 0, <<>>)
    /\ UNCHANGED <<storeVars, gatewayVars, toggles, simulationIntervals,
                   userVars>>
    /\ UNCHANGED frontVars

\* UsersService.remove: sets isActive false, the document stays.
remove(id) ==
    /\ wire' = <<>>
    /\ IF dbUp /\ id \in 1..Len(users)
       THEN /\ users' = [users EXCEPT ![id].isActive = FALSE]
            /\ ret' = UserRet("remove", "ok", id, <<>>)
       ELSE /\ ret' = UserRet("remove", "rejected", id, <<>>)
            /\ UNCHANGED users
    /\ UNCHANGED <<storeVars, gatewayVars, toggles, simulationIntervals,
                   authCalls>>
    /\ UNCHANGED frontVars

\* UsersService.changePassword, its read and its write taken at one moment.
changePassword(id, oldPassword, newPassword) ==
    /\ wire' = <<>>
    /\ IF dbUp /\ id \in 1..Len(users)
            /\ BcryptjsCompare(Plain(oldPassword), users[id].password)
       THEN /\ \E h \in BcryptjsHashes(newPassword) :
                 users' = [users EXCEPT ![id].password = h]
            /\ ret' = UserRet("changePassword", "ok", id, <<>>)
       ELSE /\ ret' = UserRet("changePassword", "rejected", id, <<>>)
            /\ UNCHANGED users
    /\ UNCHANGED <<storeVars, gatewayVars, toggles, simulationIntervals,
                   authCalls>>
    /\ UNCHANGED frontVars

\* UsersService.updateProfile: the update data without password, role and
\* permissions is written to the user with the id.
updateProfile(id, updateData) ==
    /\ wire' = <<>>
    /\ IF dbUp /\ id \in 1..Len(users)
       THEN /\ users' = [users EXCEPT
                            ![id] = Updated(@, ProfileData(updateData))]
            /\ ret' = [op |-> "updateProfile", outcome |-> "ok", id |-> id,
                       data |-> updateData,
                       body |-> <<SelectWithoutPassword(users', id)>>]
       ELSE /\ ret' = [op |-> "updateProfile", outcome |-> "rejected",
                       id |-> id, data |-> updateData, body |-> <<>>]
            /\ UNCHANGED users
    /\ UNCHANGED <<storeVars, gatewayVars, toggles, simulationIntervals,
                   authCalls, frontVars>>

\* UsersService.updateUserRole: the operation that does set role and
\* permissions.
updateUserRole(id, role, permissions) ==
    /\ wire' = <<>>
    /\ IF dbUp /\ id \in 1..Len(users)
       THEN /\ users' = [users EXCEPT ![id].role = role,
                                      ![id].permissions = permissions]
            /\ ret' = UserRet("updateUserRole", "ok", id,
                              <<SelectWithoutPassword(users', id)>>)
       ELSE /\ ret' = UserRet("updateUserRole", "rejected", id, <<>>)
            /\ UNCHANGED users
    /\ UNCHANGED <<storeVars, gatewayVars, toggles, simulationIntervals,
                   authCalls, frontVars>>

\* ------------------------------------------------------------- AuthController
\* A login or register request before its findByEmail resolves.
NewAuthCall(op, email, password) ==
    [op |-> op, email |-> email, password |-> Plain(password),
     pc |-> "find", id |-> 0, activeAtRead |-> FALSE, stored |-> <<>>]

login(email, password) ==
    /\ Len(authCalls) < MaxInFlight
    /\ authCalls' = Append(authCalls, NewAuthCall("login", email, password))
    /\ Quiet
    /\ UNCHANGED <<storeVars, gatewayVars, toggles, simulationIntervals, users>>
    /\ UNCHANGED frontVars

register(email, password) ==
    /\ Len(authCalls) < MaxInFlight
    /\ authCalls' = Append(authCalls, NewAuthCall("register", email, password))
    /\ Quiet
    /\ UNCHANGED <<storeVars, gatewayVars, toggles, simulationIntervals, users>>
    /\ UNCHANGED frontVars

\* The response of a login or register.  activeAtRead and stored record
\* whether an active user had the email, and its stored password, when
\* findByEmail resolved; storeFailed whether a query of the request rejected;
\* takenBefore whether a user had the email before the step.
AuthRet(call, outcome, token, body, storeFailed) ==
    [op |-> call.op, outcome |-> outcome, email |-> call.email,
     password |-> call.password, token |-> token, body |-> body,
     activeAtRead |-> call.activeAtRead, stored |-> call.stored,
     storeFailed |-> storeFailed,
     takenBefore |-> \E i \in 1..Len(users) : users[i].email = call.email]

\* The catch of login and of register: UnauthorizedException, no token.
Unauthorized(k, call, storeFailed) ==
    /\ authCalls' = Remove(authCalls, k)
    /\ ret' = AuthRet(call, "rejected", <<>>, <<>>, storeFailed)
    /\ UNCHANGED users

\* What the store held for the email when findByEmail resolved.
AtRead(call) ==
    LET act == {i \in 1..Len(users) :
                   users[i].email = call.email /\ users[i].isActive}
    IN [call EXCEPT !.activeAtRead = act # {},
                    !.stored = IF act = {} THEN <<>>
                               ELSE <<users[CHOOSE i \in act : TRUE].password>>]

\* The pending query of the k-th login in flight resolves.
LoginStep(k, call) ==
    IF ~dbUp THEN Unauthorized(k, call, TRUE)
    ELSE IF call.pc = "find"
    THEN LET id == FindByEmail(users, call.email)
             read == [AtRead(call) EXCEPT !.id = id, !.pc = "write"]
         IN IF id = 0 THEN Unauthorized(k, read, FALSE)
            ELSE IF ~IsPasswordValid(call.password, users[id].password)
            THEN Unauthorized(k, read, FALSE)
            ELSE /\ authCalls' = [authCalls EXCEPT ![k] = read]
                 /\ ret' = NoRet
                 /\ UNCHANGED users
    ELSE /\ users' = [users EXCEPT ![call.id].lastLogin = <<now>>]
         /\ authCalls' = Remove(authCalls, k)
         /\ ret' = AuthRet(call, "ok",
                           <<[email |-> users[call.id].email, sub |-> call.id]>>,
                           <<ResponseUser(users, call.id)>>, FALSE)

\* The pending query of the k-th register in flight resolves.
RegisterStep(k, call) ==
    IF ~dbUp THEN Unauthorized(k, call, TRUE)
    ELSE IF call.pc = "find"
    THEN LET id == FindByEmail(users, call.email)
             read == [AtRead(call) EXCEPT !.id = id, !.pc = "write"]
         IN IF id # 0 THEN Unauthorized(k, read, FALSE)
            ELSE /\ authCalls' = [authCalls EXCEPT ![k] = read]
                 /\ ret' = NoRet
                 /\ UNCHANGED users
    ELSE IF EmailTaken(users, call.email) THEN Unauthorized(k, call, FALSE)
    ELSE /\ Len(users) < MaxUsers
         /\ users' = Append(users, [email |-> call.email,
                                    password |-> BcryptHash(call.password.of),
                                    isActive |-> TRUE, lastLogin |-> <<>>,
                                    name |-> "New User", role |-> "user",
                                    permissions |-> <<>>])
         /\ authCalls' = Remove(authCalls, k)
         /\ ret' = AuthRet(call, "ok",
                           <<[email |-> call.email, sub |-> Len(users')]>>,
                           <<ResponseUser(users', Len(users'))>>, FALSE)

AuthStep(k) ==
    /\ k \in 1..Len(authCalls)
    /\ wire' = <<>>
    /\ IF authCalls[k].op = "login" THEN LoginStep(k, authCalls[k])
       ELSE RegisterStep(k, authCalls[k])
    /\ UNCHANGED <<storeVars, gatewayVars, toggles, simulationIntervals>>
    /\ UNCHANGED frontVars

\* ------------------------------------------------------------- DataSimulationService
\* The sensor groups startSimulation arms an interval timer for (the groups
\* of the modelled ids), with the ids a tick of the timer feeds in turn.
SimulatedGroups ==
    << [group |-> "temperature", ids |-> <<"TEMP_001", "TEMP_002">>],
       [group |-> "pressure", ids |-> <<"PRESSURE_001">>] >>

NewTimers == [i \in 1..Len(SimulatedGroups) |->
                 [group |-> SimulatedGroups[i].group,
                  ids |-> SimulatedGroups[i].ids, pending |-> <<>>]]

\* startSimulation, called by the timeout of onModuleInit or by any holder
\* of the service: pushes one interval timer per group.
startSimulation ==
    /\ Len(simulationIntervals) + Len(NewTimers) <= MaxTimers
    /\ simulationIntervals' = simulationIntervals \o NewTimers
    /\ wire' = <<>>
    /\ ret' = [op |-> "startSimulation"]
    /\ UNCHANGED <<storeVars, gatewayVars, toggles, userVars>>
    /\ UNCHANGED frontVars

\* stopSimulation: clears every timer of the list and empties the list.  A
\* callback already running is not interrupted; it is no longer tracked.
stopSimulation ==
    /\ simulationIntervals' = <<>>
    /\ wire' = <<>>
    /\ ret' = [op |-> "stopSimulation"]
    /\ UNCHANGED <<storeVars, gatewayVars, toggles, userVars>>
    /\ UNCHANGED frontVars

\* The i-th armed timer fires: its callback starts with the group's ids to
\* feed.  A tick during a callback of the same timer is not modelled.
SimulationTick(i) ==
    /\ i \in 1..Len(simulationIntervals)
    /\ simulationIntervals[i].pending = <<>>
    /\ Len(sensorData) < MaxData
    /\ simulationIntervals' = [simulationIntervals EXCEPT
                                  ![i].pending = simulationIntervals[i].ids]
    /\ Quiet
    /\ UNCHANGED <<storeVars, gatewayVars, toggles, userVars>>
    /\ UNCHANGED frontVars

\* The pending addSensorData of the i-th timer's callback resolves: the
\* reading is saved, or the save rejects and ends the callback.
SimulationStep(i) ==
    /\ i \in 1..Len(simulationIntervals)
    /\ simulationIntervals[i].pending # <<>>
    /\ wire' = <<>>
    /\ LET sensorId == Head(simulationIntervals[i].pending) IN
       IF dbUp /\ Len(sensorData) < MaxData
       THEN /\ sensorData' = Append(sensorData,
                   [sensorId |-> sensorId, value |-> 1, timestamp |-> now])
            /\ simulationIntervals' = [simulationIntervals EXCEPT
                                          ![i].pending = Tail(@)]
            /\ ret' = [op |-> "addSensorData", outcome |-> "ok",
                       sensorId |-> sensorId]
       ELSE /\ ~dbUp
            /\ simulationIntervals' = [simulationIntervals EXCEPT
                                          ![i].pending = <<>>]
            /\ ret' = [op |-> "addSensorData", outcome |-> "rejected",
                       sensorId |-> sensorId]
            /\ UNCHANGED sensorData
    /\ UNCHANGED <<sensors, now, dbUp, gatewayVars, toggles, userVars>>
    /\ UNCHANGED frontVars

\* ------------------------------------------------------------- dashboard page
\* The effect of useSensorData for the selected sensor: the response of
\* getSensorData replaces data; a failed request leaves it.
fetchData ==
    /\ IF dbUp
       THEN \E h \in GetSensorData(sensorData, SelectedSensor, ChartLimit) :
               historicalData' = h
       ELSE UNCHANGED historicalData
    /\ Quiet
    /\ UNCHANGED <<storeVars, gatewayVars, toggles, simulationIntervals,
                   userVars, provider>>

\* The provider's handler of latestReadings: the snapshot received replaces
\* the state.  The snapshot is one the server read at one moment.
onLatestReadings ==
    /\ provider.socket = "connected"
    /\ dbUp
    /\ LET L == GetAllSensors(sensors) IN
       \E pick \in [1..Len(L) -> {<<>>} \cup {<<d>> : d \in Range(sensorData)}] :
         /\ \A i \in 1..Len(L) : pick[i] \in FindOneLatest(sensorData, L[i].sensorId)
         /\ provider' = [provider EXCEPT !.latestReadings =
                            [i \in 1..Len(L) |-> [sensor |-> L[i], data |-> pick[i]]]]
    /\ Quiet
    /\ UNCHANGED <<storeVars, gatewayVars, toggles, simulationIntervals,
                   userVars, historicalData>>

\* A render of the dashboard page computes chartData.
chartData ==
    /\ wire' = <<>>
    /\ ret' = [op |-> "chartData", historical |-> historicalData,
               latest |-> LatestReadingData(provider.latestReadings),
               chart |-> ChartData(historicalData, provider.latestReadings)]
    /\ UNCHANGED <<storeVars, gatewayVars, toggles, simulationIntervals,
                   userVars, frontVars>>

\* ------------------------------------------------------------- WebSocketProvider
\* The disconnect handler of the socket: a reconnect timeout is armed and
\* kept in the ref; the timeout the ref held before is not cleared.
OnDisconnect(p) ==
    [p EXCEPT !.timeouts = @ \cup {p.nextTimeout},
              !.ref = <<p.nextTimeout>>,
              !.nextTimeout = @ + 1]

\* clearTimeout(reconnectTimeoutRef.current) when the ref holds a timeout.
ClearReconnectTimeout(p) ==
    IF p.ref = <<>> THEN p ELSE [p EXCEPT !.timeouts = @ \ {p.ref[1]}]

\* The effect runs for an authenticated user: io(...) creates the socket,
\* which starts connecting.
ProviderEffect ==
    /\ provider.socket = "none"
    /\ provider' = [provider EXCEPT !.socket = "connecting"]
    /\ Quiet
    /\ UNCHANGED <<storeVars, gatewayVars, toggles, simulationIntervals,
                   userVars, historicalData>>

\* The connect event of the socket.
onConnect ==
    /\ provider.socket = "connecting"
    /\ provider' = [ClearReconnectTimeout(provider) EXCEPT !.socket = "connected"]
    /\ Quiet
    /\ UNCHANGED <<storeVars, gatewayVars, toggles, simulationIntervals,
                   userVars, historicalData>>

\* The server or the transport closes the connection: the disconnect event.
onDisconnect ==
    /\ provider.socket = "connected"
    /\ provider.nextTimeout <= MaxTimers
    /\ provider' = [OnDisconnect(provider) EXCEPT !.socket = "disconnected"]
    /\ Quiet
    /\ UNCHANGED <<storeVars, gatewayVars, toggles, simulationIntervals,
                   userVars, historicalData>>

\* The manager reconnects a socket the client did not close itself.
ManagerReconnect ==
    /\ provider.socket = "disconnected"
    /\ provider' = [provider EXCEPT !.socket = "connecting"]
    /\ Quiet
    /\ UNCHANGED <<storeVars, gatewayVars, toggles, simulationIntervals,
                   userVars, historicalData>>

\* An armed reconnect timeout fires: connect() unless the socket is
\* connected.
ReconnectTimeout(id) ==
    /\ id \in provider.timeouts
    /\ provider' = [provider EXCEPT
                       !.timeouts = @ \ {id},
                       !.socket = IF @ \in {"disconnected", "closed"}
                                  THEN "connecting" ELSE @]
    /\ wire' = <<>>
    /\ ret' = [op |-> "reconnectTimeout",
               connect |-> provider.socket # "connected",
               afterCleanup |-> provider.cleaned]
    /\ UNCHANGED <<storeVars, gatewayVars, toggles, simulationIntervals,
                   userVars, historicalData>>

\* The cleanup of the effect (logout or unmount): clearTimeout of the ref,
\* then newSocket.disconnect(), which fires the disconnect event, and so the
\* disconnect handler, when the socket is connected.
CleanedUp(p) ==
    [(IF p.socket = "connected" THEN OnDisconnect(ClearReconnectTimeout(p))
      ELSE ClearReconnectTimeout(p))
        EXCEPT !.socket = "closed", !.cleaned = TRUE]

ProviderCleanup ==
    /\ provider.socket # "none"
    /\ ~provider.cleaned
    /\ provider.nextTimeout <= MaxTimers
    /\ provider' = CleanedUp(provider)
    /\ wire' = <<>>
    /\ ret' = [op |-> "cleanup"]
    /\ UNCHANGED <<storeVars, gatewayVars, toggles, simulationIntervals,
                   userVars, historicalData>>

\* ------------------------------------------------------------- specification
\* Every operation, with every input.
Next ==
    \/ Advance
    \/ StoreDown
    \/ StoreUp
    \/ \E c \in Clients : TransportFail(c)
    \/ \E s \in SensorIds, v \in Values : addSensorData(s, v)
    \/ \E s \in SensorIds, t \in Thresholds : updateSensorConfig(s, t)
    \/ \E s \in SensorIds : deleteSensor(s)
    \/ getSensorAlerts
    \/ afterInit
    \/ \E c \in Clients : handleConnection(c)
    \/ \E c \in Clients : handleDisconnect(c)
    \/ \E c \in Clients, r \in Rooms : handleJoinRoom(c, r)
    \/ \E c \in Clients, r \in Rooms : handleLeaveRoom(c, r)
    \/ \E c \in Clients, s \in SensorIds : handleRequestSensorData(c, s)
    \/ Tick
    \/ \E k \in 1..Len(calls) : Step(k)
    \/ \E s \in SensorIds : broadcastSensorUpdate(s)
    \/ sendAlert
    \/ Stop

Spec == Init /\ [][Next]_vars

\* The fan-out: two clients, their rooms and transports, every emitting
\* operation.  The store already holds one reading per sensor and receives
\* no other, and a tick finds no invocation in flight.
SeededData ==
    << [sensorId |-> "TEMP_001", value |-> 1, timestamp |-> 0],
       [sensorId |-> "TEMP_002", value |-> 1, timestamp |-> 0] >>

GatewayInit ==
    /\ sensors = DefaultSensors
    /\ sensorData = SeededData
    /\ now = 0
    /\ dbUp = TRUE
    /\ sockets = {}
    /\ rooms = [c \in Clients |-> {}]
    /\ broken = {}
    /\ connectedClients = {}
    /\ timerArmed = FALSE
    /\ calls = <<>>
    /\ stopRequested = FALSE
    /\ wire = <<>>
    /\ ret = NoRet
    /\ toggles = <<>>
    /\ simulationIntervals = <<>>
    /\ users = SeededUsers
    /\ authCalls = <<>>
    /\ provider = NewProvider
    /\ historicalData = <<>>

GatewayNext ==
    \/ StoreDown
    \/ StoreUp
    \/ \E c \in Clients : TransportFail(c)
    \/ afterInit
    \/ \E c \in Clients : handleConnection(c)
    \/ \E c \in Clients : handleDisconnect(c)
    \/ \E c \in Clients, r \in Rooms : handleJoinRoom(c, r)
    \/ \E c \in Clients, r \in Rooms : handleLeaveRoom(c, r)
    \/ \E c \in Clients, s \in SensorIds : handleRequestSensorData(c, s)
    \/ (calls = <<>> /\ Tick)
    \/ \E k \in 1..Len(calls) : Step(k)
    \/ \E s \in SensorIds : broadcastSensorUpdate(s)
    \/ sendAlert

GatewaySpec == GatewayInit /\ [][GatewayNext]_vars

\* The broadcast scheduler: one client, the timer, the invocations it starts
\* and the store going down under them.
SchedulerNext ==
    \/ StoreDown
    \/ StoreUp
    \/ \E s \in SensorIds : addSensorData(s, 1)
    \/ afterInit
    \/ handleConnection("c1")
    \/ ("c1" \in sockets /\ handleDisconnect("c1"))
    \/ Tick
    \/ \E k \in 1..Len(calls) : Step(k)
    \/ Stop

SchedulerSpec == Init /\ [][SchedulerNext]_vars

\* Snapshot assembly: the invocations started by two connecting clients, the
\* store changing under them.
AssemblyNext ==
    \/ Advance
    \/ StoreDown
    \/ StoreUp
    \/ \E s \in SensorIds : addSensorData(s, 1)
    \/ deleteSensor("TEMP_002")
    \/ \E c \in Clients : handleConnection(c)
    \/ \E c \in sockets : handleDisconnect(c)
    \/ \E k \in 1..Len(calls) : Step(k)

AssemblySpec == Init /\ [][AssemblyNext]_vars

\* The sensor and reading collections under the writing operations of the
\* service, readings arriving for every id a producer uses.
StoreNext ==
    \/ StoreDown
    \/ StoreUp
    \/ \E s \in AllSensorIds : addSensorData(s, 1)
    \/ \E s \in AllSensorIds : createSensor(s)
    \/ updateSensorConfig("TEMP_001", [min |-> 1, max |-> 2])
    \/ deleteSensor("TEMP_002")
    \/ \E s \in {"TEMP_001", "PRESSURE_001"} : toggleSensorStatus(s)
    \/ \E k \in 1..Len(toggles) : toggleSensorStatusUpdate(k)

StoreSpec == Init /\ [][StoreNext]_vars

\* The simulator: its timers started, stopped and firing, the store going
\* down under the readings they feed.
SimulationNext ==
    \/ Advance
    \/ StoreDown
    \/ StoreUp
    \/ startSimulation
    \/ stopSimulation
    \/ \E i \in 1..Len(simulationIntervals) : SimulationTick(i)
    \/ \E i \in 1..Len(simulationIntervals) : SimulationStep(i)
    \/ \E s \in SensorIds : deleteSensor(s)

SimulationSpec == Init /\ [][SimulationNext]_vars

\* Users and authentication: registrations and logins in flight, the store
\* going down under them, users removed and passwords changed meanwhile.
AuthNext ==
    \/ StoreDown
    \/ StoreUp
    \/ \E p \in Passwords : login("admin@example.com", p)
    \/ login("new@example.com", "admin123")
    \/ \E e \in Emails : register(e, "pw2")
    \/ \E k \in 1..Len(authCalls) : AuthStep(k)
    \/ create("new@example.com", "pw2")
    \/ \E id \in UserIds : findById(id)
    \/ findAll
    \/ \E id \in UserIds : remove(id)
    \/ \E id \in UserIds : changePassword(id, "pw2", "admin123")

AuthSpec == Init /\ [][AuthNext]_vars

\* The browser: the provider's socket and its reconnect timeouts, the
\* dashboard's data and chart, readings being stored meanwhile.
DashboardNext ==
    \/ Advance
    \/ addSensorData(SelectedSensor, 1)
    \/ fetchData
    \/ onLatestReadings
    \/ chartData
    \/ ProviderEffect
    \/ onConnect
    \/ onDisconnect
    \/ ManagerReconnect
    \/ \E id \in provider.timeouts : ReconnectTimeout(id)
    \/ ProviderCleanup

DashboardSpec == Init /\ [][DashboardNext]_vars

\* User profiles: users created and deactivated, their profiles updated
\* with every update data, roles set by the operation meant for it.
ProfileNext ==
    \/ StoreDown
    \/ StoreUp
    \/ create("new@example.com", "pw2")
    \/ \E id \in UserIds : remove(id)
    \/ \E id \in UserIds, u \in UpdateDatas : updateProfile(id, u)
    \/ \E id \in UserIds : updateUserRole(id, "viewer", <<"read">>)

ProfileSpec == Init /\ [][ProfileNext]_vars

\* Statistics: a sensor with up to MaxStats stored readings of every value,
\* one per unit of time, and the windows that hold some or all of them.
StatsData ==
    UNION {{[i \in 1..n |-> [sensorId |-> "TEMP_001", value |-> f[i],
                             timestamp |-> i]] : f \in [1..n -> StatValues]} :
           n \in 0..MaxStats}

StatsInit ==
    /\ sensors = DefaultSensors
    /\ sensorData \in StatsData
    /\ now = MaxStats
    /\ dbUp = TRUE
    /\ sockets = {}
    /\ rooms = [c \in Clients |-> {}]
    /\ broken = {}
    /\ connectedClients = {}
    /\ timerArmed = FALSE
    /\ calls = <<>>
    /\ stopRequested = FALSE
    /\ wire = <<>>
    /\ ret = NoRet
    /\ toggles = <<>>
    /\ simulationIntervals = <<>>
    /\ users = SeededUsers
    /\ authCalls = <<>>
    /\ provider = NewProvider
    /\ historicalData = <<>>

StatsNext ==
    \/ StoreDown
    \/ StoreUp
    \/ \E days \in {1, MaxStats} : getSensorStats("TEMP_001", days)

StatsSpec == StatsInit /\ [][StatsNext]_vars

\* The broadcasts one client receives: its initial send and the periodic
\* cycles overlapping, readings of one sensor stored meanwhile as time
\* passes, the other sensor without reading.
BroadcastNext ==
    \/ Advance
    \/ \E v \in {1, 2} : addSensorData("TEMP_001", v)
    \/ afterInit
    \/ handleConnection("c1")
    \/ ("c1" \in sockets /\ handleDisconnect("c1"))
    \/ Tick
    \/ \E k \in 1..Len(calls) : Step(k)

BroadcastSpec == Init /\ [][BroadcastNext]_vars

\* The emissions of a periodic cycle: one client that stays connected, the
\* cycles of the timer, readings of the two sensors stored as time passes.
CycleNext ==
    \/ Advance
    \/ addSensorData("TEMP_001", 2)
    \/ addSensorData("TEMP_002", 1)
    \/ afterInit
    \/ handleConnection("c1")
    \/ Tick
    \/ \E k \in 1..Len(calls) : Step(k)

CycleSpec == Init /\ [][CycleNext]_vars

\* Threshold evaluation: every value of TEMP_001 against every threshold,
\* and one value of TEMP_002.
AlertNext ==
    \/ Advance
    \/ StoreDown
    \/ StoreUp
    \/ \E v \in Values : addSensorData("TEMP_001", v)
    \/ addSensorData("TEMP_002", 3)
    \/ \E s \in SensorIds, t \in Thresholds : updateSensorConfig(s, t)
    \/ \E s \in SensorIds : deleteSensor(s)
    \/ getSensorAlerts

AlertSpec == Init /\ [][AlertNext]_vars

\* The scheduler under the scheduling the runtime guarantees: the framework
\* calls afterInit, an armed interval timer keeps firing, and a pending
\* query resolves or rejects.
FairNext ==
    \/ StoreDown
    \/ StoreUp
    \/ afterInit
    \/ handleConnection("c1")
    \/ ("c1" \in sockets /\ handleDisconnect("c1"))
    \/ Tick
    \/ \E k \in 1..Len(calls) : Step(k)

FairSpec ==
    /\ Init
    /\ [][FairNext]_vars
    /\ WF_vars(afterInit)
    /\ WF_vars(Tick)
    /\ WF_vars(\E k \in 1..Len(calls) : Step(k))

\* ------------------------------------------------------------- observations
\* The latest step ended a getLatestReadings invocation of the given kind.
Ended(kind, outcome) ==
    /\ ret.op = "getLatestReadings"
    /\ ret.kind = kind
    /\ ret.outcome = outcome

WireMsgs == {wire[i] : i \in 1..Len(wire)}

\* The messages of the latest step that are broadcasts of the server.
Broadcasts ==
    {m \in WireMsgs : \/ m.event \in {"sensorUpdate", "alert"}
                      \/ m.event = "latestReadings" /\ Ended("cycle", "ok")}

WithData(readings) == SelectSeq(readings, LAMBDA r : r.data # <<>>)

\* ------------------------------------------------------------- claims

\* C1: at most one periodic broadcast cycle is in flight at any time: a tick
\* that fires while the previous cycle has not finished is skipped.
C1_AtMostOneCycleInFlight == CyclesInFlight <= 1

\* C2: a subscriber whose only joined room is sensor X never receives a
\* sensorUpdate whose sensorId is another sensor.
C2_TopicFiltering ==
    \A m \in WireMsgs :
        m.event = "sensorUpdate" =>
            \A c \in m.to : \A x \in SensorIds :
                rooms[c] = {x} => m.sensorId = x

C4_SnapshotCompleteUnderFailure ==
    (ret.op = "getLatestReadings" /\ ret.listRead) =>
        /\ ret.outcome = "ok"
        /\ Len(ret.readings) = Len(ret.sensors)
        /\ \A i \in 1..Len(ret.sensors) : ret.readings[i].sensor = ret.sensors[i]

\* C5: a snapshot returned by getLatestReadings has exactly one entry per
\* sensor that was active when the sensor list was read, and an entry's
\* reading is null exactly when the sensor had no stored reading at its fetch,
\* otherwise a stored reading of that sensor with the greatest timestamp.
C5_SnapshotOnePerActiveSensor ==
    (ret.op = "getLatestReadings" /\ ret.outcome = "ok") =>
        LET R == ret.readings
            A == ret.allAtRead
        IN /\ \A i \in 1..Len(A) : A[i].isActive =>
                 Cardinality({j \in 1..Len(R) :
                     R[j].sensor.sensorId = A[i].sensorId}) = 1
           /\ \A j \in 1..Len(R) :
                 \E i \in 1..Len(A) : A[i] = R[j].sensor /\ A[i].isActive
           /\ \A j \in 1..Len(R) :
                 /\ (R[j].data = <<>>) <=> (ret.seen[j] = {})
                 /\ R[j].data # <<>> =>
                       /\ R[j].data[1] \in ret.seen[j]
                       /\ R[j].data[1].sensorId = R[j].sensor.sensorId
                       /\ \A d \in ret.seen[j] :
                             d.timestamp <= R[j].data[1].timestamp

C5_Witness ==
    /\ ret.op = "getLatestReadings"
    /\ ret.outcome = "ok"
    /\ Len(ret.readings) = 1
    /\ Len(ret.allAtRead) = 2
    /\ \E d \in ret.seen[1] : d.timestamp < ret.readings[1].data[1].timestamp

\* The alert getSensorAlerts returned for one sensor: "none" when it
\* returned no entry for it.
ReturnedAlert(sensorId) ==
    LET hits == SelectSeq(ret.alerts, LAMBDA a : a.sensor.sensorId = sensorId)
    IN IF hits = <<>> THEN "none" ELSE hits[1].alertType

\* C6 as stated: with a threshold and a latest reading, the alert is high if
\* and only if value > max and low if and only if value < min, for every min
\* and max, min > max included; without threshold or reading there is none.
C6_ThresholdExact ==
    (ret.op = "getSensorAlerts" /\ ret.outcome = "ok") =>
        \A i \in 1..Len(ret.evals) :
            LET e == ret.evals[i]
                a == ReturnedAlert(e.sensor.sensorId)
            IN IF e.sensor.alertThreshold = <<>> \/ e.data = <<>>
               THEN a = "none"
               ELSE /\ (a = "high") <=>
                          (e.data[1].value > e.sensor.alertThreshold[1].max)
                    /\ (a = "low") <=>
                          (e.data[1].value < e.sensor.alertThreshold[1].min)

\* C6 as amended: high if and only if value > max; low if and only if
\* value < min and value <= max; none otherwise (value == min and
\* value == max raise no alert, nor does a sensor without threshold or
\* without reading).  With min > max a value strictly between max and min
\* is reported high, not low.
C6_ThresholdHighFirst ==
    (ret.op = "getSensorAlerts" /\ ret.outcome = "ok") =>
        /\ Len(ret.evals) = Len(SelectSeq(ret.all, LAMBDA d : d.isActive))
        /\ \A i \in 1..Len(ret.evals) :
            LET e == ret.evals[i]
                a == ReturnedAlert(e.sensor.sensorId)
            IN IF e.sensor.alertThreshold = <<>> \/ e.data = <<>>
               THEN a = "none"
               ELSE /\ (a = "high") <=>
                          (e.data[1].value > e.sensor.alertThreshold[1].max)
                    /\ (a = "low") <=>
                          /\ e.data[1].value < e.sensor.alertThreshold[1].min
                          /\ e.data[1].value <= e.sensor.alertThreshold[1].max
                    /\ a \in {"high", "low", "none"}

C6_Witness ==
    /\ ret.op = "getSensorAlerts"
    /\ ret.outcome = "ok"
    /\ \E i \in 1..Len(ret.alerts) :
          /\ ret.alerts[i].alertType = "high"
          /\ ret.alerts[i].sensor.alertThreshold[1].min >
                ret.alerts[i].sensor.alertThreshold[1].max
          /\ ret.alerts[i].latestValue < ret.alerts[i].sensor.alertThreshold[1].min

\* The alert state the threshold evaluation gives an entry's own reading.
AlertStateOf(entry) ==
    IF entry.sensor.alertThreshold = <<>> \/ entry.data = <<>> THEN "none"
    ELSE IF entry.data[1].value > entry.sensor.alertThreshold[1].max THEN "above"
    ELSE IF entry.data[1].value < entry.sensor.alertThreshold[1].min THEN "below"
    ELSE "none"

\* C7: every entry of the snapshot pushed by a periodic cycle carries an
\* alert state, equal to the threshold evaluation of that entry's own reading.
C7_SnapshotCarriesAlertState ==
    Ended("cycle", "ok") =>
        \A m \in WireMsgs : m.event = "latestReadings" =>
            \A j \in 1..Len(m.snapshot) :
                /\ "alertState" \in DOMAIN m.snapshot[j]
                /\ m.snapshot[j].alertState = AlertStateOf(m.snapshot[j])

C9_CycleFailed == Ended("cycle", "rejected")

C9_SnapshotDelivered ==
    /\ Ended("cycle", "ok")
    /\ wire # <<>>
    /\ wire[1].event = "latestReadings"
    /\ "c1" \in wire[1].to

C9_FailedCycleDoesNotStopScheduler ==
    /\ [](C9_CycleFailed => (wire = <<>> /\ timerArmed))
    /\ [][timerArmed => timerArmed']_vars
    /\ (<>[](dbUp /\ "c1" \in connectedClients)) => []<>C9_SnapshotDelivered

C9_Witness ==
    /\ C9_CycleFailed
    /\ wire = <<>>
    /\ timerArmed
    /\ "c1" \in connectedClients

\* C10: after a stop of the scheduler no new broadcast cycle starts.
C10_NoCycleStartsAfterStop ==
    \A k \in 1..Len(calls) : calls[k].kind = "cycle" => ~calls[k].afterStop

\* C11: handleDisconnect processed for a client that is no longer connected
\* (a second time) changes nothing: the connected clients, the sockets, rooms
\* and transports broadcasts go to, the timer and the invocations in flight
\* are as the first call left them, and the call raises no error.
C11_DisconnectIdempotent ==
    [][(ret'.op = "handleDisconnect" /\ ~ret'.present) =>
          /\ ret'.outcome = "ok"
          /\ connectedClients' = connectedClients
          /\ UNCHANGED <<sockets, rooms, broken, timerArmed, calls, storeVars>>
          /\ wire' = <<>>]_vars

C11_Witness ==
    /\ ret.op = "handleDisconnect"
    /\ ~ret.present
    /\ ret.outcome = "ok"
    /\ ret.client \notin connectedClients
    /\ \E k \in 1..Len(calls) : calls[k].client = ret.client

\* C12: every stored reading's sensorId refers to an existing sensor:
\* addSensorData for an id that matches no sensor stores nothing.
C12_ReadingsReferToSensors ==
    \A d \in Range(sensorData) :
        \E i \in 1..Len(sensors) : sensors[i].sensorId = d.sensorId

\* C13: every reading saved by addSensorData is followed, within that same
\* operation, by a sensorUpdate for that sensor broadcast to the connected
\* clients.
C13_SavedReadingIsBroadcast ==
    (ret.op = "addSensorData" /\ ret.outcome = "ok") =>
        \E m \in WireMsgs : /\ m.event = "sensorUpdate"
                            /\ m.sensorId = ret.sensorId
                            /\ connectedClients \subseteq m.target

\* C14: no two sensor records, active or inactive, share a sensorId, and a
\* record keeps the sensorId it was created with: records are only appended
\* and an existing record's sensorId never changes.
C14_SensorIdUniqueImmutable ==
    /\ [](\A i, j \in 1..Len(sensors) :
             sensors[i].sensorId = sensors[j].sensorId => i = j)
    /\ [][/\ Len(sensors') >= Len(sensors)
          /\ \A i \in 1..Len(sensors) :
                sensors'[i].sensorId = sensors[i].sensorId]_vars

C14_Witness ==
    /\ ret.op = "createSensor"
    /\ ret.outcome = "rejected"
    /\ dbUp
    /\ \E i \in 1..Len(sensors) :
          /\ sensors[i].sensorId = ret.sensorId
          /\ ~sensors[i].isActive
          /\ sensors[i].alertThreshold # <<>>
    /\ Len(sensors) = 3

\* C15: stored readings are append-only: a step either leaves the readings
\* as they are or appends exactly one, and appends one exactly when it is a
\* successful addSensorData; a deactivated sensor keeps its readings.
C15_ReadingsAppendOnly ==
    [][/\ Len(sensorData') \in {Len(sensorData), Len(sensorData) + 1}
       /\ SubSeq(sensorData', 1, Len(sensorData)) = sensorData
       /\ (Len(sensorData') = Len(sensorData) + 1) <=>
             (ret'.op = "addSensorData" /\ ret'.outcome = "ok"
                /\ sensorData'[Len(sensorData')].sensorId = ret'.sensorId)]_vars

C15_Witness ==
    /\ ret.op = "toggleSensorStatus"
    /\ ret.outcome = "ok"
    /\ Len(sensorData) = 2
    /\ \E i \in 1..Len(sensors) :
          /\ ~sensors[i].isActive
          /\ sensors[i].sensorId = ret.sensorId
          /\ DataOf(sensorData, sensors[i].sensorId) # {}

\* C19: at most one timer per simulated sensor group is armed at any time
\* (a start while the simulation runs does nothing), and after
\* stopSimulation none is armed.
C19_OneTimerPerGroup ==
    /\ \A i, j \in 1..Len(simulationIntervals) :
          simulationIntervals[i].group = simulationIntervals[j].group => i = j
    /\ ret.op = "stopSimulation" => simulationIntervals = <<>>

\* The given password is the one the user's stored password was set from:
\* the stored plain text, or the text a stored hash was computed from.
Matches(given, stored) ==
    /\ stored # <<>>
    /\ given.kind = "plain"
    /\ given.of = stored[1].of

\* C16: with the store answering, login returns an access token and the
\* user's data if and only if an active user with the given email exists and
\* the given password matches that user's stored password; otherwise it
\* raises UnauthorizedException and issues no token.
C16_LoginIffCredentialsMatch ==
    (ret.op = "login" /\ ~ret.storeFailed) =>
        /\ (ret.outcome = "ok") <=>
              (ret.activeAtRead /\ Matches(ret.password, ret.stored))
        /\ ret.outcome = "ok" => (ret.token # <<>> /\ ret.body # <<>>)
        /\ ret.outcome # "ok" => ret.token = <<>>

\* C17: no response of the auth and users operations contains the user's
\* password field.
C17_NoPasswordInResponses ==
    (ret.op \in {"login", "register", "findById", "findAll", "create"}
        /\ ret.outcome = "ok") =>
        \A i \in 1..Len(ret.body) : "password" \notin DOMAIN ret.body[i]

\* C18: at most one user record exists per email, concurrent registrations
\* included; a register for an email that already belongs to a user is
\* rejected, and a rejected register neither creates nor modifies a user.
C18_OneUserPerEmail ==
    /\ [](\A i, j \in 1..Len(users) : users[i].email = users[j].email => i = j)
    /\ [][ret'.op = "register" =>
            /\ ret'.takenBefore => ret'.outcome = "rejected"
            /\ ret'.outcome = "rejected" => users' = users
            /\ ret'.outcome = "ok" =>
                  /\ Len(users') = Len(users) + 1
                  /\ SubSeq(users', 1, Len(users)) = users
                  /\ users'[Len(users')].email = ret'.email]_vars

C18_Witness ==
    /\ ret.op = "register"
    /\ ret.outcome = "rejected"
    /\ ~ret.storeFailed
    /\ ~ret.activeAtRead
    /\ ret.takenBefore
    /\ Len(users) = 2
    /\ \A i \in 1..Len(users) : users[i].isActive

\* C20: a login succeeds only if an active user had the email when the
\* lookup resolved, so a login made after remove(id) set the user inactive
\* is rejected although its password is the right one; remove keeps the
\* user record, changing isActive only.
C20_DeactivatedUserCannotLogin ==
    /\ []((ret.op = "login" /\ ret.outcome = "ok") => ret.activeAtRead)
    /\ []((ret.op = "login" /\ ~ret.activeAtRead) =>
             (ret.outcome = "rejected" /\ ret.token = <<>>))
    /\ [][(ret'.op = "remove" /\ ret'.outcome = "ok") =>
            /\ Len(users') = Len(users)
            /\ ~users'[ret'.id].isActive
            /\ \A i \in 1..Len(users) :
                  /\ users'[i].email = users[i].email
                  /\ users'[i].password = users[i].password
                  /\ i # ret'.id => users'[i] = users[i]]_vars

C20_Witness ==
    /\ ret.op = "login"
    /\ ret.outcome = "rejected"
    /\ ~ret.storeFailed
    /\ ~ret.activeAtRead
    /\ \E i \in 1..Len(users) :
          /\ users[i].email = ret.email
          /\ ~users[i].isActive
          /\ users[i].password = ret.password

\* C21: the dashboard appends the real-time point of the selected sensor to
\* the chart series exactly when its timestamp is strictly newer than the
\* greatest timestamp of the historical data; it is never appended when the
\* historical data holds a point at least as new.
C21_RealtimePointOnlyWhenNewer ==
    (ret.op = "chartData" /\ ret.historical # <<>> /\ ret.latest # <<>>) =>
        ((Len(ret.chart) > Len(ret.historical)) <=>
            (\A d \in Range(ret.historical) :
                 d.timestamp < ret.latest[1].timestamp))

\* C23: once the cleanup of the provider's effect has run, no reconnect
\* timeout remains armed and no timeout calls connect on the socket.
C23_NoReconnectAfterCleanup ==
    /\ provider.cleaned => provider.timeouts = {}
    /\ (ret.op = "reconnectTimeout" /\ ret.afterCleanup) => ~ret.connect

\* C22: updateProfile never changes a user's password, role or permissions,
\* whatever fields the update data contains: it sets the other fields of the
\* data on the user with the given id, leaves that user's remaining fields
\* and every other user unchanged, and changes nothing when it fails.
C22_UpdateProfileKeepsSensitiveFields ==
    [][ret'.op = "updateProfile" =>
          /\ Len(users') = Len(users)
          /\ \A i \in 1..Len(users) : i # ret'.id => users'[i] = users[i]
          /\ ret'.outcome # "ok" => users' = users
          /\ ret'.outcome = "ok" =>
                \A f \in DOMAIN users[ret'.id] :
                    users'[ret'.id][f] =
                        IF f \in DOMAIN ret'.data
                              /\ f \notin {"password", "role", "permissions"}
                        THEN ret'.data[f]
                        ELSE users[ret'.id][f]]_vars

C22_Witness ==
    /\ ret.op = "updateProfile"
    /\ ret.outcome = "ok"
    /\ {"password", "role", "permissions", "name"} \subseteq DOMAIN ret.data
    /\ users[ret.id].name = ret.data.name
    /\ users[ret.id].role = "viewer"
    /\ users[ret.id].role # ret.data.role
    /\ users[ret.id].permissions # ret.data.permissions
    /\ users[ret.id].password # ret.data.password
    /\ Len(users) = 2

\* C26: every completed toggleSensorStatus flips isActive of its sensor, so
\* that after N completed calls isActive is the original value for even N
\* and its negation for odd N, concurrent calls included.
C26_ToggleFlipsOncePerCall ==
    [][(ret'.op = "toggleSensorStatus" /\ ret'.outcome = "ok") =>
          \A i \in 1..Len(sensors) :
              sensors[i].sensorId = ret'.sensorId =>
                  sensors'[i].isActive = ~sensors[i].isActive]_vars

\* C29: getSensorStats reports trend up only if the average of the last
\* quarter of the window is greater than that of the first quarter, down
\* only if it is smaller, and stable whenever the two are equal or the
\* window holds fewer than four readings, negative values included.
C29_TrendFollowsQuarterAverages ==
    (ret.op = "getSensorStats" /\ ret.outcome = "ok") =>
        LET n == Len(ret.values)
            q == n \div 4
            first == Sum(SubSeq(ret.values, 1, q))
            last == Sum(SubSeq(ret.values, n - q + 1, n))
        IN /\ ret.trend = "up" => (n >= 4 /\ last > first)
           /\ ret.trend = "down" => (n >= 4 /\ last < first)
           /\ (n < 4 \/ last = first) => ret.trend = "stable"

\* C24 as stated: no message is emitted to a client after handleDisconnect
\* has been processed for it: every emit addresses connected clients only.
C24_NoEmitAfterDisconnect ==
    \A m \in WireMsgs : m.target \subseteq connectedClients

\* C24 as amended: after handleDisconnect has been processed for a client no
\* message is delivered to it, and no broadcast addresses it; the initial
\* send of its own connection, when it completes after the disconnect, still
\* calls emit on its closed socket, which drops the packet.
C24_NothingDeliveredAfterDisconnect ==
    \A m \in WireMsgs :
        /\ m.to \subseteq connectedClients
        /\ (m.event \in {"latestReadings", "sensorUpdate", "alert"}
              /\ ~(m.target \subseteq connectedClients)) =>
              /\ Ended("client", "ok")
              /\ m.event = "latestReadings"
              /\ m.target = {ret.client}
              /\ m.to = {}

C24_Witness ==
    /\ Ended("client", "ok")
    /\ ret.client \notin connectedClients
    /\ connectedClients # {}
    /\ wire[1].target = {ret.client}
    /\ wire[1].to = {}

\* C25: the snapshots a client receives are of non-decreasing freshness: of
\* two latestReadings delivered to it one after the other, the later one
\* carries for no sensor a reading of smaller timestamp.
C25_SnapshotFreshnessMonotone ==
    [][\A i \in 1..Len(wire), j \in 1..Len(wire') :
          (/\ wire[i].event = "latestReadings"
           /\ wire'[j].event = "latestReadings"
           /\ wire[i].to \cap wire'[j].to # {}) =>
              \A a \in 1..Len(wire[i].snapshot), b \in 1..Len(wire'[j].snapshot) :
                  (/\ wire[i].snapshot[a].sensor.sensorId =
                         wire'[j].snapshot[b].sensor.sensorId
                   /\ wire[i].snapshot[a].data # <<>>
                   /\ wire'[j].snapshot[b].data # <<>>) =>
                      wire'[j].snapshot[b].data[1].timestamp >=
                          wire[i].snapshot[a].data[1].timestamp]_vars

\* C27: a periodic tick that finds no connected client starts no store read
\* and emits nothing, and the timer stays armed; every periodic cycle, in
\* flight or emitting, found a connected client when it started, even when
\* no client is connected any more at its emission.
C27_TickWithoutClientsDoesNothing ==
    /\ [][(ret'.op = "tick" /\ ~ret'.foundClients) =>
             /\ calls' = calls
             /\ wire' = <<>>
             /\ timerArmed'
             /\ UNCHANGED <<storeVars, socketVars>>]_vars
    /\ [](\A k \in 1..Len(calls) : calls[k].foundClients)
    /\ []((ret.op = "getLatestReadings" /\ ret.kind = "cycle") =>
             ret.foundClients)

C27_Witness ==
    /\ ret.op = "tick"
    /\ ~ret.foundClients
    /\ timerArmed
    /\ connectedClients = {}
    /\ \E k \in 1..Len(calls) : calls[k].kind = "cycle"

\* C28: a periodic cycle emits the full snapshot first and then one
\* sensorUpdate for each snapshot entry that has a reading, in snapshot
\* order, with the entry's sensor, value and timestamp; it emits none for an
\* entry without reading.
C28_SnapshotThenUpdatesInOrder ==
    Ended("cycle", "ok") =>
        LET withData == WithData(ret.readings) IN
        /\ Len(wire) = 1 + Len(withData)
        /\ wire[1].event = "latestReadings"
        /\ wire[1].snapshot = ret.readings
        /\ \A i \in 1..Len(withData) :
              /\ wire[i + 1].event = "sensorUpdate"
              /\ wire[i + 1].sensorId = withData[i].sensor.sensorId
              /\ wire[i + 1].value = withData[i].data[1].value
              /\ wire[i + 1].timestamp = withData[i].data[1].timestamp

C28_Witness ==
    /\ Ended("cycle", "ok")
    /\ Len(ret.readings) = 2
    /\ Len(wire) = 2
    /\ ret.readings[1].data # <<>>
    /\ ret.readings[2].data = <<>>
    /\ wire[2].value = 2
    /\ wire[2].timestamp = 1
    /\ "c1" \in wire[2].to

====
